---- MODULE Spec2Model ----
(***************************************************************************)
(* State-machine model of MarketSimulation (src/src/lib/MarketSimulation.ts)*)
(* and of the order producer NeuralNetworkTrader                            *)
(* (src/src/lib/NeuralNetworkTrader.ts).                                    *)
(*                                                                          *)
(* Numbers.  The program works on IEEE doubles; the model works on          *)
(* integers.  Prices live on a one-dollar grid and a product that the       *)
(* program leaves fractional is rounded down to the grid.  The monetary     *)
(* thresholds of the program (1e9, 1e10, 1e12, 3e12) are scaled down so     *)
(* that the trades of a few shares explored here fall on both sides of      *)
(* them.  Math.random() draws are nondeterministic choices from small sets. *)
(***************************************************************************)
EXTENDS Integers, Sequences, FiniteSets, TLC

VARIABLES isRunning, timers, time, currentPrice, previousPrice, volume,
          buys, sells, portfolio, startingCapital, nnPosition,
          chart, macro, pending, sink, traders, marketMaker,
          trades, matchIn, matchOut, last, seen, calls

vars == <<isRunning, timers, time, currentPrice, previousPrice, volume,
          buys, sells, portfolio, startingCapital, nnPosition,
          chart, macro, pending, sink, traders, marketMaker,
          trades, matchIn, matchOut, last, seen, calls>>

(***************************************************************************)
(* Bounds of the exploration.                                               *)
(***************************************************************************)
MaxTime == 2
MaxTimers == 1
MaxBook == 2
LedgerBook == 2
LedgerTime == 1
MaxAgentOrders == 2
LedgerAgentOrders == 0
MaxAgentQty == 2
MaxTradeQty == 2
MaxHolding == 3
PriceBand == 1
MaxNNPosition == 1
ChartTime == 3
LoopTime == 15
LoopTimers == 2
AgeTime == 115
AgeBook == 2
AgeTrades == 1
CrowdTime == 2
CrowdBook == 70
TraderCash == 1000
TraderShares == 3
MaxDuration == 3
MaxIncrements == 5
DurationSet == -1..MaxDuration
FrontHerds == {0, 1, 11}
BackHerds == {0, 11, 21}
DriftSet == {-1, 0, 1}
JitterSet == {-1, 0}

(***************************************************************************)
(* Constants of the program.                                                *)
(***************************************************************************)
InitialPrice == 100
(* startingCapital, 3e12 in the program. *)
DefaultCapital == 300
(* One echo order per 1e9 of notional in the program, at most MaxChunks. *)
ChunkNotional == 100
MaxChunks == 10
(* executeTrade moves the price by min(0.2, totalCost / 1e12) / 2. *)
TradeImpactNotional == 5000
(* A mega_player fill moves the price by min(0.1, notional / 1e10). *)
MatchImpactNotional == 10000
MaxAge == 100
BookDepth == 20
(* The matching pass stops after more than 100 fills in the program. *)
TradeCap == 10
AIInterval == 15
(* The neural network's orders are capped at 50000 shares in the program. *)
NNOrderCap == 1
(* Date.now(), milliseconds since 1970: far above any tick count. *)
EpochMs == 1000000000
(* The clock counts in units of the timer delay of simulate, 100 ms; a     *)
(* candle lasts 2000 ms.                                                    *)
TickDelay == 1
CandleWindow == 20
HistoryCap == 200
(* Sentiment and volatility are counted in ten-thousandths. *)
DefaultSentiment == 5000
DefaultVolatility == 1000
MinVolatility == 100
MaxVolatility == 8000
FullSentiment == 10000
CycleDuration == 2000

Min(a, b) == IF a < b THEN a ELSE b
Max(a, b) == IF a > b THEN a ELSE b

MinPrice == InitialPrice - PriceBand

MaxPrice == InitialPrice + PriceBand

PriceOK(p) == p >= MinPrice /\ p <= MaxPrice

(***************************************************************************)
(* Array.prototype.sort with the comparators of addOrder: a stable sort,    *)
(* buys by descending price, sells by ascending price.                      *)
(***************************************************************************)
RECURSIVE InsertBuy(_, _)
InsertBuy(s, o) ==
  IF s = << >> THEN <<o>>
  ELSE IF Head(s).price >= o.price THEN <<Head(s)>> \o InsertBuy(Tail(s), o)
  ELSE <<o>> \o s

RECURSIVE SortBuys(_)
SortBuys(s) ==
  IF s = << >> THEN << >>
  ELSE InsertBuy(SortBuys(SubSeq(s, 1, Len(s) - 1)), s[Len(s)])

RECURSIVE InsertSell(_, _)
InsertSell(s, o) ==
  IF s = << >> THEN <<o>>
  ELSE IF Head(s).price <= o.price THEN <<Head(s)>> \o InsertSell(Tail(s), o)
  ELSE <<o>> \o s

RECURSIVE SortSells(_)
SortSells(s) ==
  IF s = << >> THEN << >>
  ELSE InsertSell(SortSells(SubSeq(s, 1, Len(s) - 1)), s[Len(s)])

(***************************************************************************)
(* The order book as a record [buys, sells]; addOrder pushes the order on   *)
(* its side and re-sorts that side.                                         *)
(***************************************************************************)
(* addOrder without the re-sort: the order stays where push put it. *)
addOrderNoSort(book, order) ==
  IF order.type = "buy"
  THEN [book EXCEPT !.buys = Append(book.buys, order)]
  ELSE [book EXCEPT !.sells = Append(book.sells, order)]

addOrder(book, order) ==
  IF order.type = "buy"
  THEN [book EXCEPT !.buys = SortBuys(Append(book.buys, order))]
  ELSE [book EXCEPT !.sells = SortSells(Append(book.sells, order))]

RECURSIVE addOrders(_, _)
addOrders(book, orders) ==
  IF orders = << >> THEN book
  ELSE addOrders(addOrder(book, Head(orders)), Tail(orders))

(***************************************************************************)
(* executeRealisticTrades.  MatchStep is one iteration of the while loop    *)
(* that found a crossing pair; m carries the loop's variables and the log   *)
(* of the fills made so far (pre-fill quantities, filled quantity, trade    *)
(* price, and the two orders as they were left).                            *)
(***************************************************************************)
MegaImpact(tradePrice, quantity) ==
  (tradePrice * (MatchImpactNotional
                 + Min(MatchImpactNotional \div 10, quantity * tradePrice)))
     \div MatchImpactNotional

TradePrice(highestBuy, lowestSell) ==
  IF lowestSell.timestamp < highestBuy.timestamp
  THEN lowestSell.price ELSE highestBuy.price

(* The fill taken as the larger of the two quantities. *)
FillQuantityMax(highestBuy, lowestSell) ==
  Max(highestBuy.quantity, lowestSell.quantity)

FillQuantity(highestBuy, lowestSell) ==
  Min(highestBuy.quantity, lowestSell.quantity)

(* One iteration that shifts both orders off the book whatever is left. *)
MatchStepDropBoth(m) ==
  LET highestBuy == Head(m.buys)
      lowestSell == Head(m.sells)
      quantity   == FillQuantity(highestBuy, lowestSell)
      tradePrice == TradePrice(highestBuy, lowestSell)
      buyLeft    == [highestBuy EXCEPT !.quantity = @ - quantity]
      sellLeft   == [lowestSell EXCEPT !.quantity = @ - quantity]
  IN [buys  |-> Tail(m.buys),
      sells |-> Tail(m.sells),
      previousPrice |-> m.currentPrice,
      currentPrice  |-> IF highestBuy.trader = "mega_player"
                        THEN MegaImpact(tradePrice, quantity)
                        ELSE tradePrice,
      volume |-> m.volume + quantity,
      tradesExecuted |-> m.tradesExecuted + 1,
      log |-> Append(m.log, [buy |-> highestBuy, sell |-> lowestSell,
                             quantity |-> quantity, tradePrice |-> tradePrice,
                             buyLeft |-> buyLeft, sellLeft |-> sellLeft])]

MatchStep(m) ==
  LET highestBuy == Head(m.buys)
      lowestSell == Head(m.sells)
      quantity   == FillQuantity(highestBuy, lowestSell)
      tradePrice == TradePrice(highestBuy, lowestSell)
      buyLeft    == [highestBuy EXCEPT !.quantity = @ - quantity]
      sellLeft   == [lowestSell EXCEPT !.quantity = @ - quantity]
  IN [buys  |-> IF buyLeft.quantity <= 0 THEN Tail(m.buys)
                ELSE <<buyLeft>> \o Tail(m.buys),
      sells |-> IF sellLeft.quantity <= 0 THEN Tail(m.sells)
                ELSE <<sellLeft>> \o Tail(m.sells),
      previousPrice |-> m.currentPrice,
      currentPrice  |-> IF highestBuy.trader = "mega_player"
                        THEN MegaImpact(tradePrice, quantity)
                        ELSE tradePrice,
      volume |-> m.volume + quantity,
      tradesExecuted |-> m.tradesExecuted + 1,
      log |-> Append(m.log, [buy |-> highestBuy, sell |-> lowestSell,
                             quantity |-> quantity, tradePrice |-> tradePrice,
                             buyLeft |-> buyLeft, sellLeft |-> sellLeft])]

(* The loop that takes equal prices for not crossing. *)
RECURSIVE MatchLoopStrict(_)
MatchLoopStrict(m) ==
  IF m.buys # << >> /\ m.sells # << >>
  THEN IF Head(m.buys).price > Head(m.sells).price
       THEN LET n == MatchStep(m)
            IN IF n.tradesExecuted > TradeCap THEN n ELSE MatchLoopStrict(n)
       ELSE m
  ELSE m

RECURSIVE MatchLoop(_)
MatchLoop(m) ==
  IF m.buys # << >> /\ m.sells # << >>
  THEN IF Head(m.buys).price >= Head(m.sells).price
       THEN LET n == MatchStep(m)
            IN IF n.tradesExecuted > TradeCap THEN n ELSE MatchLoop(n)
       ELSE m
  ELSE m

(* The whole pass; jitter is the Math.random() move of the price that is    *)
(* applied when the pass made no trade.                                     *)
MatchAll(book, price, prevPrice) ==
  MatchLoop([buys |-> SortBuys(book.buys), sells |-> SortSells(book.sells),
             currentPrice |-> price, previousPrice |-> prevPrice,
             volume |-> 0, tradesExecuted |-> 0, log |-> << >>])

executeRealisticTrades(book, price, prevPrice, jitter) ==
  LET m == MatchAll(book, price, prevPrice)
  IN IF m.tradesExecuted = 0
     THEN [m EXCEPT !.previousPrice = m.currentPrice,
                    !.currentPrice = m.currentPrice + jitter]
     ELSE m

(***************************************************************************)
(* cleanOrderBook: drop the orders whose timestamp is maxAge ticks or more  *)
(* behind the tick counter, then keep the first BookDepth of each side.     *)
(***************************************************************************)
Fresh(s, t) == SelectSeq(s, LAMBDA o : t - o.timestamp < MaxAge)

FirstN(s, n) == SubSeq(s, 1, Min(Len(s), n))

(* The cut that keeps the tail of each side. *)
cleanOrderBookTail(book, t) ==
  LET tail(s) == SubSeq(s, Max(1, Len(s) - BookDepth + 1), Len(s))
  IN [buys  |-> tail(Fresh(book.buys, t)),
      sells |-> tail(Fresh(book.sells, t))]

cleanOrderBook(book, t) ==
  [buys  |-> FirstN(Fresh(book.buys, t), BookDepth),
   sells |-> FirstN(Fresh(book.sells, t), BookDepth)]

(***************************************************************************)
(* updatePortfolio: revalue the account at the current price.               *)
(***************************************************************************)
(* The revaluation with the short liability left out. *)
updatePortfolioNoShort(pf, price, capital) ==
  LET longValue  == pf.shares * price
      totalValue == pf.cash + longValue
  IN [pf EXCEPT !.totalValue = totalValue,
                !.pnl = totalValue - capital,
                !.pnlPercent = ((totalValue - capital) * 100) \div capital]

(* The revaluation that also takes a fee of one per share held from cash. *)
updatePortfolioCharging(pf, price, capital) ==
  LET cash       == pf.cash - pf.shares
      longValue  == pf.shares * price
      shortValue == pf.shortPosition * price
      totalValue == cash + longValue - shortValue
  IN [pf EXCEPT !.cash = cash,
                !.totalValue = totalValue,
                !.pnl = totalValue - capital,
                !.pnlPercent = ((totalValue - capital) * 100) \div capital]

updatePortfolio(pf, price, capital) ==
  LET longValue  == pf.shares * price
      shortValue == pf.shortPosition * price
      totalValue == pf.cash + longValue - shortValue
  IN [pf EXCEPT !.totalValue = totalValue,
                !.pnl = totalValue - capital,
                !.pnlPercent = ((totalValue - capital) * 100) \div capital]

FreshPortfolio(capital) ==
  [cash |-> capital, shares |-> 0, shortPosition |-> 0,
   totalValue |-> capital, pnl |-> 0, pnlPercent |-> 0]

(***************************************************************************)
(* The candles.  chart holds currentCandle, the history candlestickData    *)
(* and age, the time since candleStartTime at the last look at the clock;  *)
(* elapsed is the time that has passed since then.                         *)
(***************************************************************************)
FlatCandle(price) ==
  [open |-> price, high |-> price, low |-> price, close |-> price,
   volume |-> 0]

LastN(s, n) == IF Len(s) <= n THEN s ELSE SubSeq(s, Len(s) - n + 1, Len(s))

initializeCandlestick(price) ==
  [candle |-> FlatCandle(price), age |-> 0, history |-> << >>]

(* The running candle overwritten with the latest price. *)
updateCandlestickNoMax(ch, price, vol, elapsed) ==
  IF ch.age + elapsed >= CandleWindow
  THEN [candle |-> FlatCandle(price), age |-> 0,
        history |-> LastN(Append(ch.history, ch.candle), HistoryCap)]
  ELSE [ch EXCEPT !.age = @ + elapsed,
                  !.candle = [open |-> @.open, high |-> price, low |-> price,
                              close |-> price, volume |-> @.volume + vol]]

updateCandlestick(ch, price, vol, elapsed) ==
  IF ch.age + elapsed >= CandleWindow
  THEN [candle |-> FlatCandle(price), age |-> 0,
        history |-> LastN(Append(ch.history, ch.candle), HistoryCap)]
  ELSE [ch EXCEPT !.age = @ + elapsed,
                  !.candle = [open |-> @.open,
                              high |-> Max(@.high, price),
                              low |-> Min(@.low, price),
                              close |-> price,
                              volume |-> @.volume + vol]]

(***************************************************************************)
(* Sentiment, volatility, business cycle and government policies.  Their   *)
(* moves of the price are part of the drift of a tick.  A policy is        *)
(* [made, impact, duration] with the impact in ten-thousandths; mood and   *)
(* swing are the Math.random() moves of updateMarketConditions together    *)
(* with the moves of the rare market events.                               *)
(***************************************************************************)
Clamp(x, lo, hi) == Max(lo, Min(hi, x))

Abs(x) == IF x < 0 THEN -x ELSE x

(* The defaults with the volatility at its floor. *)
FreshMacroCalm ==
  [marketSentiment |-> DefaultSentiment,
   volatilityIndex |-> MinVolatility,
   businessCycle |-> [phase |-> "expansion", currentTime |-> 0],
   activePolicies |-> << >>]

FreshMacro ==
  [marketSentiment |-> DefaultSentiment,
   volatilityIndex |-> DefaultVolatility,
   businessCycle |-> [phase |-> "expansion", currentTime |-> 0],
   activePolicies |-> << >>]

NextPhase(phase) ==
  CASE phase = "expansion"   -> "peak"
    [] phase = "peak"        -> "contraction"
    [] phase = "contraction" -> "trough"
    [] OTHER                 -> "expansion"

SentimentImpact(phase) ==
  CASE phase = "expansion"   -> 10
    [] phase = "peak"        -> -5
    [] phase = "contraction" -> -20
    [] OTHER                 -> -10

updateBusinessCycle(m) ==
  LET ct  == m.businessCycle.currentTime + 1
      cyc == IF ct >= CycleDuration
             THEN [phase |-> NextPhase(m.businessCycle.phase),
                   currentTime |-> 0]
             ELSE [m.businessCycle EXCEPT !.currentTime = ct]
  IN [m EXCEPT !.businessCycle = cyc,
               !.marketSentiment =
                  Clamp(@ + SentimentImpact(cyc.phase), 0, FullSentiment)]

NoPolicy == [made |-> FALSE, impact |-> 0, duration |-> 0]

RECURSIVE AgePolicies(_)
AgePolicies(ps) ==
  IF ps = << >> THEN << >>
  ELSE LET aged == [Head(ps) EXCEPT !.duration = @ - 1]
       IN IF aged.duration > 0 THEN <<aged>> \o AgePolicies(Tail(ps))
          ELSE AgePolicies(Tail(ps))

generateGovernmentPolicyEvents(m, policy) ==
  LET pushed ==
        IF policy.made
        THEN [m EXCEPT
                !.activePolicies =
                   Append(@, [impact |-> policy.impact,
                              duration |-> policy.duration]),
                !.marketSentiment =
                   Clamp(@ + policy.impact \div 2, 0, FullSentiment),
                !.volatilityIndex =
                   Clamp(@ + (Abs(policy.impact) * 3) \div 10,
                         MinVolatility, MaxVolatility)]
        ELSE m
  IN [pushed EXCEPT !.activePolicies = AgePolicies(@)]

updateMarketConditions(m, mood, swing) ==
  [m EXCEPT !.marketSentiment = Clamp(@ + mood, 0, FullSentiment),
            !.volatilityIndex = Clamp(@ + swing, MinVolatility, MaxVolatility)]

(***************************************************************************)
(* The three sinks.  sink holds what each callback was last called with:   *)
(* the market data of onPriceUpdate, the order list of onOrderBookUpdate   *)
(* (buys, then sells) and the portfolio of onPortfolioUpdate.              *)
(***************************************************************************)
NoMarketData == [price |-> 0, volume |-> 0, timestamp |-> 0]

(* updateCallbacks that delivers the portfolio alone. *)
updateCallbacksNoBook(snk, pf, book) ==
  [snk EXCEPT !.portfolio = pf]

updateCallbacks(snk, pf, book) ==
  [snk EXCEPT !.portfolio = pf, !.orders = book.buys \o book.sells]

updateMarketData(snk, price, vol, tick) ==
  [snk EXCEPT !.price = [price |-> price, volume |-> vol, timestamp |-> tick]]


(***************************************************************************)
(* NeuralNetworkTrader.executeDecision.  The decision value is a sum of     *)
(* random weights, so the action and the raw quantity are inputs.  The      *)
(* result tells whether an order was made (the code returns null when      *)
(* not), the order and the new position; the order is stamped with          *)
(* Date.now(), milliseconds since 1970, which EpochMs stands for.           *)
(***************************************************************************)
NNActions == {"BUY", "SELL", "SHORT", "COVER", "HOLD"}

NullOrder == [type |-> "none", price |-> 0, quantity |-> 0, trader |-> "none",
              timestamp |-> 0, isShort |-> FALSE, born |-> 0]

executeDecision(action, quantity, position, price, tick) ==
  IF action = "HOLD" \/ quantity <= 0
  THEN [made |-> FALSE, order |-> NullOrder, position |-> position]
  ELSE
    LET capped == Min(quantity, NNOrderCap)
        orderType == IF action \in {"BUY", "COVER"} THEN "buy" ELSE "sell"
        finalQuantity ==
          CASE action = "SELL"  -> Min(capped, Max(0, position))
            [] action = "COVER" -> Min(capped, -Min(0, position))
            [] OTHER            -> capped
    IN [made |-> TRUE,
        order |-> [type |-> orderType,
                   price |-> IF orderType = "buy" THEN (price * 1001) \div 1000
                             ELSE (price * 999) \div 1000,
                   quantity |-> finalQuantity,
                   trader |-> "neural_network",
                   timestamp |-> EpochMs,
                   isShort |-> action \in {"SHORT", "COVER"},
                   born |-> tick],
        position |-> IF orderType = "buy" THEN position + finalQuantity
                     ELSE position - finalQuantity]

(* calculateAction answers COVER only while the position is short. *)
NNInputs(position) ==
  {d \in NNActions \X (0..NNOrderCap + 1) :
     d[1] = "COVER" => position < 0}

(***************************************************************************)
(* Orders of the synthetic traders (generateHumanOrder, generateAIOrder,    *)
(* generateCoordinatedMarketMakerOrder, generateEventReactionOrder): side,  *)
(* price around the current price and a positive quantity are random; the   *)
(* timestamp is the tick counter.  Nothing in the simulation reads the      *)
(* short flag of a resting order, so it is not drawn.                       *)
(***************************************************************************)
AgentOrders(price, tick) ==
  {[type |-> ty, price |-> p, quantity |-> q, trader |-> "agent",
    timestamp |-> tick, isShort |-> FALSE, born |-> tick] :
     ty \in {"buy", "sell"}, p \in {price - 1, price + 1},
     q \in 1..MaxAgentQty}

AgentBatches(price, tick, most) ==
  UNION {[1..n -> AgentOrders(price, tick)] : n \in 0..most}

(***************************************************************************)
(* History variables.  last tells the kind of the step just taken: "tick"   *)
(* for a run of simulate, the operation's name for the trade operations    *)
(* and setStartingCapital, "other" for the rest.  For the trade operations *)
(* it also keeps the arguments and the portfolio, the price and the book   *)
(* as they were when the operation was called.                              *)
(* trades is the list of fills of the matching pass of the step just taken, *)
(* matchIn the book that pass started from (after its two sorts) and        *)
(* matchOut the book it left, before cleanOrderBook; all three are empty    *)
(* when the step was no tick.                                               *)
(***************************************************************************)
NoBook == [buys |-> << >>, sells |-> << >>]

Did(op, type, quantity, price, isShort) ==
  [op |-> op, type |-> type, quantity |-> quantity, price |-> price,
   isShort |-> isShort, prePortfolio |-> portfolio,
   prePrice |-> currentPrice, preBuys |-> buys, preSells |-> sells]

Other(op) ==
  [op |-> op, type |-> "none", quantity |-> 0, price |-> 0,
   isShort |-> FALSE, prePortfolio |-> FreshPortfolio(0),
   prePrice |-> 0, preBuys |-> << >>, preSells |-> << >>]

NoMatch == trades' = << >> /\ matchIn' = NoBook /\ matchOut' = NoBook

(* calls counts the invocations of each callback by the step just taken;  *)
(* seen is the set of prices the running candle has been shown.           *)
NoCalls == [price |-> 0, orders |-> 0, portfolio |-> 0]

Called(onPrice, onOrders, onPortfolio) ==
  [price |-> onPrice, orders |-> onOrders, portfolio |-> onPortfolio]

(* The decision simulate is waiting for, if any. *)
NoPending == [active |-> FALSE, made |-> FALSE, order |-> NullOrder]

(* new MarketMakerSimulation(): the mode is off and no manipulation is set. *)
(* A null direction is written "none".  asked and steps are history: the    *)
(* direction and duration of the last call of setMarketManipulation that    *)
(* was not ignored, and the number of calls of incrementManipulationCandle  *)
(* since then.                                                              *)
NoRequest == [direction |-> "none", duration |-> 0]

NewMarketMaker ==
  [marketMakerMode |-> FALSE, manipulationDirection |-> "none",
   manipulationDuration |-> 0, manipulationCandles |-> 0,
   asked |-> NoRequest, steps |-> 0]

(* initializeTraders(): the human and AI traders whose orders the ticks     *)
(* generate, one who buys and one who sells, each with cash, shares and no *)
(* short position.  No statement of the program assigns to a trader's cash,*)
(* shares or short position after this.                                    *)
initializeTraders ==
  [who \in {"buyer", "seller"} |->
     [cash |-> TraderCash, shares |-> TraderShares, shortPosition |-> 0]]

Init ==
  /\ isRunning = FALSE
  /\ timers = 0
  /\ time = 0
  /\ currentPrice = InitialPrice
  /\ previousPrice = InitialPrice
  /\ volume = 0
  /\ buys = << >>
  /\ sells = << >>
  /\ startingCapital = DefaultCapital
  /\ portfolio = FreshPortfolio(DefaultCapital)
  /\ nnPosition = 0
  /\ chart = initializeCandlestick(InitialPrice)
  /\ macro = FreshMacro
  /\ pending = NoPending
  /\ traders = initializeTraders
  /\ marketMaker = NewMarketMaker
  /\ sink = updateCallbacks([price |-> NoMarketData, orders |-> << >>,
                             portfolio |-> FreshPortfolio(DefaultCapital)],
                            FreshPortfolio(DefaultCapital), NoBook)
  /\ trades = << >>
  /\ matchIn = NoBook
  /\ matchOut = NoBook
  /\ last = Other("other")
  /\ seen = {InitialPrice}
  /\ calls = Called(0, 1, 1)

(***************************************************************************)
(* simulate(), one tick.  An environment env gives the inputs of the ticks *)
(* of a specification: most orders of the traders per tick, depth of the   *)
(* book and horizon of the tick counter that are explored, the cap on      *)
(* pending timers, and the sets the clock (elapse), the sentiment (moods), *)
(* the volatility (swings), the policy events (policies) and the random    *)
(* moves of the price before (drifts) and after (jitters) the matching     *)
(* pass are drawn from.                                                     *)
(*                                                                          *)
(* TickStarts is simulate up to its await: advance the tick counter, let   *)
(* the cycle, trend, policy and event layers move the price (drift) and    *)
(* the sentiment, let the traders add orders (batch) and, on every         *)
(* AIInterval-th tick, ask the neural network, whose answer dec is         *)
(* computed at the call.  finishTick is the rest: add the network's order, *)
(* match, update the candle, clean the book, call the three sinks.         *)
(***************************************************************************)
TickStarts(env) ==
  LET t == time + 1
  IN UNION {
       {[time  |-> t,
         price |-> currentPrice + drift,
         book  |-> addOrders([buys |-> buys, sells |-> sells], batch),
         dec   |-> executeDecision(nn[1], nn[2], nnPosition,
                                   currentPrice + drift, t),
         macro |-> updateMarketConditions(
                     generateGovernmentPolicyEvents(
                       updateBusinessCycle(macro), policy), mood, swing)] :
          batch \in AgentBatches(currentPrice + drift, t, env.most),
          nn \in (IF t % AIInterval = 0 THEN NNInputs(nnPosition)
                  ELSE {<<"HOLD", 0>>}),
          mood \in env.moods, swing \in env.swings, policy \in env.policies}
       : drift \in {d \in env.drifts : PriceOK(currentPrice + d)}}

WithDecision(book, made, order) ==
  IF made THEN addOrder(book, order) ELSE book

finishTick(book, price, tick, env) ==
  LET dry == MatchAll(book, price, previousPrice).tradesExecuted = 0
  IN \E jitter \in (IF dry THEN env.jitters ELSE {0}), elapsed \in env.elapse :
       LET m  == executeRealisticTrades(book, price, previousPrice, jitter)
           ch == updateCandlestick(chart, m.currentPrice, m.volume, elapsed)
           b3 == cleanOrderBook([buys |-> m.buys, sells |-> m.sells], tick)
           pf == updatePortfolio(portfolio, m.currentPrice, startingCapital)
       IN /\ PriceOK(m.currentPrice)
          /\ currentPrice' = m.currentPrice
          /\ previousPrice' = m.previousPrice
          /\ volume' = m.volume
          /\ buys' = b3.buys
          /\ sells' = b3.sells
          /\ chart' = ch
          /\ portfolio' = pf
          /\ sink' = updateCallbacks(
                       updateMarketData(sink, m.currentPrice, m.volume, tick),
                       pf, b3)
          /\ calls' = Called(1, 1, 1)
          /\ trades' = m.log
          /\ matchIn' = [buys |-> SortBuys(book.buys),
                         sells |-> SortSells(book.sells)]
          /\ matchOut' = [buys |-> m.buys, sells |-> m.sells]
          /\ seen' = IF chart.age + elapsed >= CandleWindow
                     THEN {m.currentPrice}
                     ELSE seen \cup {m.currentPrice}
          /\ last' = Other("tick")

(* The whole tick in one step: makeMarketDecision contains no await of its *)
(* own, so when simulate runs from a timer the continuation after its      *)
(* await runs before any other handler.                                    *)
simulate(env) ==
  /\ time < env.horizon
  /\ \E s \in TickStarts(env) :
       LET b2 == WithDecision(s.book, s.dec.made, s.dec.order)
       IN /\ Len(b2.buys) + Len(b2.sells) <= env.depth
          /\ s.dec.position \in -MaxNNPosition..MaxNNPosition
          /\ time' = s.time
          /\ nnPosition' = s.dec.position
          /\ macro' = s.macro
          /\ finishTick(b2, s.price, s.time, env)
  /\ UNCHANGED <<marketMaker, traders, startingCapital, pending>>

(* start(): set the flag and run a tick, which arms a timer. *)
start(env) ==
  /\ ~pending.active
  /\ timers < env.timers
  /\ isRunning' = TRUE
  /\ timers' = timers + 1
  /\ simulate(env)

(* start() on a tick that asks the neural network, seen from the caller of *)
(* start: simulate returns to it at the await, and whatever the caller     *)
(* does next in the same turn happens before the tick goes on.             *)
startAwait(env) ==
  /\ ~pending.active
  /\ timers < env.timers
  /\ time < env.horizon
  /\ (time + 1) % AIInterval = 0
  /\ isRunning' = TRUE
  /\ \E s \in TickStarts(env) :
       /\ Len(s.book.buys) + Len(s.book.sells) + (IF s.dec.made THEN 1 ELSE 0)
            <= env.depth
       /\ s.dec.position \in -MaxNNPosition..MaxNNPosition
       /\ time' = s.time
       /\ currentPrice' = s.price
       /\ buys' = s.book.buys
       /\ sells' = s.book.sells
       /\ nnPosition' = s.dec.position
       /\ macro' = s.macro
       /\ pending' = [active |-> TRUE, made |-> s.dec.made,
                      order |-> s.dec.order]
  /\ last' = Other("other")
  /\ calls' = NoCalls
  /\ NoMatch
  /\ UNCHANGED <<marketMaker, traders, timers, previousPrice, volume, portfolio, startingCapital,
                 chart, sink, seen>>

(* The awaited decision resolves and simulate goes on from its await with  *)
(* the state as it is by then; it ends by arming the timer.                *)
resolveDecision(env) ==
  /\ pending.active
  /\ LET b2 == WithDecision([buys |-> buys, sells |-> sells], pending.made,
                            pending.order)
     IN finishTick(b2, currentPrice, time, env)
  /\ pending' = NoPending
  /\ timers' = timers + 1
  /\ UNCHANGED <<marketMaker, traders, isRunning, time, nnPosition, macro, startingCapital>>

(* The timer's call of simulate() without the test of isRunning. *)
TimerFiresAlways(env) ==
  /\ timers > 0
  /\ ~pending.active
  /\ simulate(env)
  /\ UNCHANGED <<isRunning, timers>>

(* The timer armed by the previous tick fires: simulate() returns at once   *)
(* when the simulation is paused, else runs a tick and re-arms the timer.   *)
(* A timer cannot fire while a tick is at its await.                        *)
TimerFires(env) ==
  /\ timers > 0
  /\ ~pending.active
  /\ IF isRunning
     THEN /\ simulate(env)
          /\ UNCHANGED <<isRunning, timers>>
     ELSE /\ timers' = timers - 1
          /\ last' = Other("other")
          /\ calls' = NoCalls
          /\ NoMatch
          /\ UNCHANGED <<marketMaker, traders, isRunning, time, currentPrice, previousPrice, volume,
                         buys, sells, portfolio, startingCapital, nnPosition,
                         chart, macro, pending, sink, seen>>

pause ==
  /\ isRunning' = FALSE
  /\ last' = Other("other")
  /\ calls' = NoCalls
  /\ NoMatch
  /\ UNCHANGED <<marketMaker, traders, timers, time, currentPrice, previousPrice, volume, buys,
                 sells, portfolio, startingCapital, nnPosition,
                 chart, macro, pending, sink, seen>>

(* reset(): stop, restore the defaults, build a new neural-network trader, *)
(* open a new candle and call the portfolio and order-book sinks           *)
(* (updateCallbacks).  A decision that is awaited stays awaited.           *)
reset ==
  LET pf == updatePortfolio(FreshPortfolio(startingCapital), InitialPrice,
                            startingCapital)
  IN /\ isRunning' = FALSE
     /\ currentPrice' = InitialPrice
     /\ previousPrice' = InitialPrice
     /\ volume' = 0
     /\ time' = 0
     /\ buys' = << >>
     /\ sells' = << >>
     /\ portfolio' = pf
     /\ nnPosition' = 0
     /\ chart' = initializeCandlestick(InitialPrice)
     /\ macro' = FreshMacro
     /\ sink' = updateCallbacks(sink, pf, NoBook)
     /\ calls' = Called(0, 1, 1)
     /\ seen' = {InitialPrice}
     /\ NoMatch
     /\ last' = Other("reset")
     /\ traders' = initializeTraders
     /\ UNCHANGED <<marketMaker, timers, startingCapital, pending>>

(* setStartingCapital(amount): cash, total value and P&L are overwritten,   *)
(* shares and short position are kept, then updateCallbacks revalues.       *)
CapitalSet == {200}

setStartingCapital(amount) ==
  LET pf == updatePortfolio(
              [portfolio EXCEPT !.cash = amount, !.totalValue = amount,
                                !.pnl = 0, !.pnlPercent = 0],
              currentPrice, amount)
  IN /\ startingCapital' = amount
     /\ portfolio' = pf
     /\ sink' = updateCallbacks(sink, pf, [buys |-> buys, sells |-> sells])
     /\ calls' = Called(0, 1, 1)
     /\ last' = Did("setStartingCapital", "none", amount, 0, FALSE)
     /\ NoMatch
     /\ UNCHANGED <<marketMaker, traders, isRunning, timers, time, currentPrice, previousPrice,
                    volume, buys, sells, nnPosition, chart, macro, pending,
                    seen>>

(***************************************************************************)
(* executeTrade(type, quantity, price, isShort).                            *)
(***************************************************************************)
(* The plain buy refused when the cost equals the cash. *)
TradePortfolioStrict(pf, type, quantity, price, isShort) ==
  LET totalCost == quantity * price
  IN IF type = "buy"
     THEN IF isShort
          THEN LET coverAmount == Min(quantity, pf.shortPosition)
                   covered == [pf EXCEPT !.cash = @ - coverAmount * price,
                                         !.shortPosition = @ - coverAmount]
               IN IF quantity > coverAmount
                  THEN [covered EXCEPT
                          !.cash = @ - (quantity - coverAmount) * price,
                          !.shares = @ + (quantity - coverAmount)]
                  ELSE covered
          ELSE IF pf.cash > totalCost
               THEN [pf EXCEPT !.cash = @ - totalCost, !.shares = @ + quantity]
               ELSE pf
     ELSE IF isShort
          THEN [pf EXCEPT !.cash = @ + totalCost,
                          !.shortPosition = @ + quantity]
          ELSE IF pf.shares >= quantity
               THEN [pf EXCEPT !.cash = @ + totalCost, !.shares = @ - quantity]
               ELSE pf

(* The cover taken as the whole quantity, whatever the short position. *)
TradePortfolioNoMin(pf, type, quantity, price, isShort) ==
  LET totalCost == quantity * price
  IN IF type = "buy"
     THEN IF isShort
          THEN LET coverAmount == quantity
                   covered == [pf EXCEPT !.cash = @ - coverAmount * price,
                                         !.shortPosition = @ - coverAmount]
               IN IF quantity > coverAmount
                  THEN [covered EXCEPT
                          !.cash = @ - (quantity - coverAmount) * price,
                          !.shares = @ + (quantity - coverAmount)]
                  ELSE covered
          ELSE IF pf.cash >= totalCost
               THEN [pf EXCEPT !.cash = @ - totalCost, !.shares = @ + quantity]
               ELSE pf
     ELSE IF isShort
          THEN [pf EXCEPT !.cash = @ + totalCost,
                          !.shortPosition = @ + quantity]
          ELSE IF pf.shares >= quantity
               THEN [pf EXCEPT !.cash = @ + totalCost, !.shares = @ - quantity]
               ELSE pf

(* Lines 963-990: the change of cash, shares and short position. *)
TradePortfolio(pf, type, quantity, price, isShort) ==
  LET totalCost == quantity * price
  IN IF type = "buy"
     THEN IF isShort
          THEN LET coverAmount == Min(quantity, pf.shortPosition)
                   covered == [pf EXCEPT !.cash = @ - coverAmount * price,
                                         !.shortPosition = @ - coverAmount]
               IN IF quantity > coverAmount
                  THEN [covered EXCEPT
                          !.cash = @ - (quantity - coverAmount) * price,
                          !.shares = @ + (quantity - coverAmount)]
                  ELSE covered
          ELSE IF pf.cash >= totalCost
               THEN [pf EXCEPT !.cash = @ - totalCost, !.shares = @ + quantity]
               ELSE pf
     ELSE IF isShort
          THEN [pf EXCEPT !.cash = @ + totalCost,
                          !.shortPosition = @ + quantity]
          ELSE IF pf.shares >= quantity
               THEN [pf EXCEPT !.cash = @ + totalCost, !.shares = @ - quantity]
               ELSE pf

(* Lines 992-993. *)
OrderChunks(totalCost) ==
  Min(MaxChunks, Max(1, totalCost \div ChunkNotional))

(* Lines 995-1007: the echo orders, in the order they are added; jit[i] is  *)
(* the random move of chunk i's price.                                      *)
EchoOrders(type, quantity, price, isShort, tick, jit) ==
  LET orderChunks == OrderChunks(quantity * price)
      chunkSize == quantity \div orderChunks
  IN [k \in 1..orderChunks |->
        [type |-> type,
         price |-> price + jit[k],
         quantity |-> IF k = orderChunks THEN quantity - chunkSize * (k - 1)
                      ELSE chunkSize,
         trader |-> "mega_player",
         timestamp |-> tick + (k - 1),
         isShort |-> isShort,
         born |-> tick]]

(* Lines 1009-1014: the price nudge, min(0.2, totalCost / 1e12) / 2. *)
TradeImpact(cur, type, totalCost) ==
  LET capped == Min(TradeImpactNotional \div 5, totalCost)
  IN IF type = "buy"
     THEN (cur * (2 * TradeImpactNotional + capped))
            \div (2 * TradeImpactNotional)
     ELSE (cur * (2 * TradeImpactNotional - capped))
            \div (2 * TradeImpactNotional)

executeTradeAs(op, type, quantity, price, isShort, depth) ==
  LET orderChunks == OrderChunks(quantity * price)
      room == depth - (Len(buys) + Len(sells))
      newPrice == TradeImpact(currentPrice, type, quantity * price)
      traded == TradePortfolio(portfolio, type, quantity, price, isShort)
  IN /\ orderChunks <= room
     /\ PriceOK(newPrice)
     /\ traded.shares <= MaxHolding
     /\ traded.shortPosition <= MaxHolding
     /\ \E jit \in [1..orderChunks -> JitterSet] :
          LET book == addOrders([buys |-> buys, sells |-> sells],
                        EchoOrders(type, quantity, price, isShort, time, jit))
          IN /\ buys' = book.buys
             /\ sells' = book.sells
     /\ currentPrice' = newPrice
     /\ portfolio' = updatePortfolio(traded, newPrice, startingCapital)
     /\ sink' = [sink EXCEPT !.portfolio =
                   updatePortfolio(traded, newPrice, startingCapital)]
     /\ calls' = Called(0, 0, 1)
     /\ last' = Did(op, type, quantity, price, isShort)
     /\ NoMatch
     /\ UNCHANGED <<marketMaker, traders, isRunning, timers, time, previousPrice, volume,
                    startingCapital, nnPosition, chart, macro, pending, seen>>

(* The public operation, with its arguments drawn from the given sets; the  *)
(* price is the market price or a limit price next to it.                   *)
executeTrade(quantities, offsets, shorts, depth) ==
  \E type \in {"buy", "sell"}, quantity \in quantities, d \in offsets,
     isShort \in shorts :
       executeTradeAs("executeTrade", type, quantity, currentPrice + d, isShort,
                      depth)

(* A max variant whose quantity is 0 returns without calling executeTrade. *)
Skipped(op) ==
  /\ last' = Did(op, "none", 0, 0, FALSE)
  /\ calls' = NoCalls
  /\ NoMatch
  /\ UNCHANGED <<marketMaker, traders, isRunning, timers, time, currentPrice, previousPrice, volume,
                 buys, sells, portfolio, startingCapital, nnPosition,
                 chart, macro, pending, sink, seen>>

(* executeBuyMax that buys a single share whatever the cash. *)
executeBuyOne(depth) ==
  LET maxQuantity == portfolio.cash \div currentPrice
  IN IF maxQuantity > 0
     THEN executeTradeAs("executeBuyMax", "buy", 1, currentPrice, FALSE, depth)
     ELSE Skipped("executeBuyMax")

executeBuyMax(depth) ==
  LET maxQuantity == portfolio.cash \div currentPrice
  IN IF maxQuantity > 0
     THEN executeTradeAs("executeBuyMax", "buy", maxQuantity, currentPrice, FALSE,
                         depth)
     ELSE Skipped("executeBuyMax")

executeSellMax(depth) ==
  IF portfolio.shares > 0
  THEN executeTradeAs("executeSellMax", "sell", portfolio.shares, currentPrice,
                      FALSE, depth)
  ELSE Skipped("executeSellMax")

executeShortMax(depth) ==
  LET maxQuantity == portfolio.cash \div currentPrice
  IN IF maxQuantity > 0
     THEN executeTradeAs("executeShortMax", "sell", maxQuantity, currentPrice,
                         TRUE, depth)
     ELSE Skipped("executeShortMax")

executeCoverMax(depth) ==
  IF portfolio.shortPosition > 0
  THEN executeTradeAs("executeCoverMax", "buy", portfolio.shortPosition,
                      currentPrice, TRUE, depth)
  ELSE Skipped("executeCoverMax")

(* makeNeuralNetworkMarketDecision(): ask the trader and add its order. *)
makeNeuralNetworkMarketDecision(depth) ==
  \E nn \in NNInputs(nnPosition) :
    LET dec == executeDecision(nn[1], nn[2], nnPosition, currentPrice, time)
        book == IF dec.made
                THEN addOrder([buys |-> buys, sells |-> sells], dec.order)
                ELSE [buys |-> buys, sells |-> sells]
    IN /\ Len(book.buys) + Len(book.sells) <= depth
       /\ dec.position \in -MaxNNPosition..MaxNNPosition
       /\ nnPosition' = dec.position
       /\ buys' = book.buys
       /\ sells' = book.sells
       /\ last' = Other("other")
       /\ calls' = NoCalls
       /\ NoMatch
       /\ UNCHANGED <<marketMaker, traders, isRunning, timers, time, currentPrice, previousPrice,
                      volume, portfolio, startingCapital, chart, macro,
                      pending, sink, seen>>

(***************************************************************************)
(* Spec: the order book under the traders' orders, the neural network's     *)
(* orders and the echo orders of plain buys and sells.                      *)
(***************************************************************************)
BookEnv ==
  [most |-> MaxAgentOrders, depth |-> MaxBook, horizon |-> MaxTime,
   timers |-> MaxTimers, elapse |-> {TickDelay}, moods |-> {-10},
   swings |-> {0}, policies |-> {NoPolicy},
   drifts |-> DriftSet, jitters |-> JitterSet]

Next ==
  \/ start(BookEnv)
  \/ TimerFires(BookEnv)
  \/ reset
  \/ executeTrade(1..MaxTradeQty, {0}, {FALSE}, MaxBook)
  \/ makeNeuralNetworkMarketDecision(MaxBook)

Spec == Init /\ [][Next]_vars

(***************************************************************************)
(* SpecLedger: the portfolio under every trade operation, with ticks that   *)
(* move the price and match the echo orders.                                *)
(***************************************************************************)
LedgerEnv ==
  [most |-> LedgerAgentOrders, depth |-> LedgerBook, horizon |-> LedgerTime,
   timers |-> MaxTimers, elapse |-> {TickDelay}, moods |-> {-10},
   swings |-> {0}, policies |-> {NoPolicy},
   drifts |-> DriftSet, jitters |-> JitterSet]

NextLedger ==
  \/ start(LedgerEnv)
  \/ TimerFires(LedgerEnv)
  \/ reset
  \/ \E amount \in CapitalSet : setStartingCapital(amount)
  \/ executeTrade(0..MaxTradeQty, {0}, BOOLEAN, LedgerBook)
  \/ executeBuyMax(LedgerBook)
  \/ executeSellMax(LedgerBook)
  \/ executeShortMax(LedgerBook)
  \/ executeCoverMax(LedgerBook)

SpecLedger == Init /\ [][NextLedger]_vars

(***************************************************************************)
(* SpecChart: the candles, the sentiment layer and the sinks under ticks    *)
(* whose clock either moves by one timer delay or passes the end of the     *)
(* candle window, with pause and reset.                                     *)
(***************************************************************************)
PolicySet == {NoPolicy, [made |-> TRUE, impact |-> -600, duration |-> 100]}

ChartEnv ==
  [most |-> 0, depth |-> 1, horizon |-> ChartTime, timers |-> MaxTimers,
   elapse |-> {TickDelay, CandleWindow}, moods |-> {90},
   swings |-> {25}, policies |-> PolicySet,
   drifts |-> DriftSet, jitters |-> JitterSet]

NextChart ==
  \/ start(ChartEnv)
  \/ TimerFires(ChartEnv)
  \/ pause
  \/ reset
  \/ executeTrade({1}, {0}, {FALSE}, 1)

SpecChart == Init /\ [][NextChart]_vars

(***************************************************************************)
(* SpecLoop: the tick loop up to the first tick that asks the neural        *)
(* network, with start() called while a timer is pending and with pause()   *)
(* and reset() called by the caller of start() before the awaited decision  *)
(* resolves.                                                                *)
(***************************************************************************)
LoopEnv ==
  [most |-> 0, depth |-> 1, horizon |-> LoopTime, timers |-> LoopTimers,
   elapse |-> {TickDelay}, moods |-> {-10}, swings |-> {0},
   policies |-> {NoPolicy},
   drifts |-> DriftSet, jitters |-> JitterSet]

NextLoop ==
  \/ start(LoopEnv)
  \/ startAwait(LoopEnv)
  \/ resolveDecision(LoopEnv)
  \/ TimerFires(LoopEnv)
  \/ pause
  \/ reset

SpecLoop == Init /\ [][NextLoop]_vars

(***************************************************************************)
(* SpecAge: orders that rest in the book for more than MaxAge ticks.  The   *)
(* price stands still between the trades; the manual trades are made        *)
(* before tick AgeTrades, the neural network adds its orders on every       *)
(* AIInterval-th tick.                                                      *)
(***************************************************************************)
AgeEnv ==
  [most |-> 0, depth |-> AgeBook, horizon |-> AgeTime, timers |-> MaxTimers,
   elapse |-> {TickDelay}, moods |-> {-10}, swings |-> {0},
   policies |-> {NoPolicy}, drifts |-> {0}, jitters |-> {0}]

NextAge ==
  \/ start(AgeEnv)
  \/ TimerFires(AgeEnv)
  \/ /\ time < AgeTrades
     /\ executeTrade(1..MaxTradeQty, {0}, {FALSE}, AgeBook)

SpecAge == Init /\ [][NextAge]_vars

(***************************************************************************)
(* SpecCrowd: the matching pass and cleanOrderBook on crowded books.  The   *)
(* book the first tick finds is drawn from herds of resting orders: on      *)
(* each side a herd at the better price in front of a herd at the worse     *)
(* price, so that passes of more than TradeCap fills and sides of more     *)
(* than BookDepth orders occur.                                             *)
(***************************************************************************)
Herd(n, type, price, quantity) ==
  [i \in 1..n |->
     [type |-> type, price |-> price, quantity |-> quantity,
      trader |-> "agent", timestamp |-> 0, isShort |-> FALSE, born |-> 0]]

BuySides ==
  {Herd(a, "buy", MaxPrice, q) \o Herd(b, "buy", MinPrice, q) :
     a \in FrontHerds, b \in BackHerds, q \in 1..MaxAgentQty}

SellSides ==
  {Herd(a, "sell", MinPrice, q) \o Herd(b, "sell", MaxPrice, q) :
     a \in FrontHerds, b \in BackHerds, q \in 1..MaxAgentQty}

InitCrowd ==
  /\ isRunning = FALSE
  /\ timers = 0
  /\ time = 0
  /\ currentPrice = InitialPrice
  /\ previousPrice = InitialPrice
  /\ volume = 0
  /\ buys \in BuySides
  /\ sells \in SellSides
  /\ startingCapital = DefaultCapital
  /\ portfolio = FreshPortfolio(DefaultCapital)
  /\ nnPosition = 0
  /\ chart = initializeCandlestick(InitialPrice)
  /\ macro = FreshMacro
  /\ pending = NoPending
  /\ traders = initializeTraders
  /\ marketMaker = NewMarketMaker
  /\ sink = updateCallbacks([price |-> NoMarketData, orders |-> << >>,
                             portfolio |-> FreshPortfolio(DefaultCapital)],
                            FreshPortfolio(DefaultCapital),
                            [buys |-> buys, sells |-> sells])
  /\ trades = << >>
  /\ matchIn = NoBook
  /\ matchOut = NoBook
  /\ last = Other("other")
  /\ seen = {InitialPrice}
  /\ calls = Called(0, 1, 1)

CrowdEnv ==
  [most |-> 0, depth |-> CrowdBook, horizon |-> CrowdTime,
   timers |-> MaxTimers, elapse |-> {TickDelay}, moods |-> {-10},
   swings |-> {0}, policies |-> {NoPolicy},
   drifts |-> {0}, jitters |-> JitterSet]

NextCrowd ==
  \/ start(CrowdEnv)
  \/ TimerFires(CrowdEnv)

SpecCrowd == InitCrowd /\ [][NextCrowd]_vars

(***************************************************************************)
(* Properties of the candles, of pause and reset and of the sinks           *)
(* (SpecChart).                                                             *)
(***************************************************************************)
Highest(S) == CHOOSE x \in S : \A y \in S : y <= x

Lowest(S) == CHOOSE x \in S : \A y \in S : x <= y

(* C11: the running candle's high is the largest and its low the smallest   *)
(* of the prices the candle was shown in its window (the price it was       *)
(* opened at and the price at the end of each later tick of the window),    *)
(* whatever their order, and after a tick its close is the price of that    *)
(* tick.                                                                    *)
CandleTracks ==
  /\ chart.candle.high = Highest(seen)
  /\ chart.candle.low = Lowest(seen)
  /\ last.op = "tick" => chart.candle.close = currentPrice

(* A window that saw three prices and closed between its high and its low. *)
CandleTracksWitness ==
  /\ last.op = "tick"
  /\ Cardinality(seen) = 3
  /\ chart.candle.close < chart.candle.high
  /\ chart.candle.close > chart.candle.low

(* C12: once pause() has been called and until start() is called, no tick   *)
(* begins: a timer that still fires and pause() itself leave the tick       *)
(* counter, the book, the price and the volume alone, and no step is a      *)
(* tick.  (The tick whose decision is awaited when pause() is called is     *)
(* the subject of C18.)                                                     *)
PausedHolds ==
  [][(~isRunning /\ ~isRunning' /\ ~pending.active)
       => /\ last'.op # "tick"
          /\ trades' = << >>
          /\ last'.op = "other"
               => UNCHANGED <<time, buys, sells, currentPrice, previousPrice,
                              volume, nnPosition, macro, chart>>]_vars

(* Paused in the middle of a run, and the pending timer has fired. *)
PausedHoldsWitness ==
  /\ ~isRunning
  /\ timers = 0
  /\ time > 0
  /\ last.op = "other"

(* C13: right after reset() the simulation is stopped, price and previous   *)
(* price are 100, the tick counter is 0, the book and the candle history    *)
(* are empty, sentiment is 0.5, volatility 0.1, the business cycle is in    *)
(* expansion at time 0, no policy is active, and the portfolio holds the    *)
(* starting capital in cash, no shares, no short position and no P&L.       *)
ResetDefaults ==
  last.op = "reset"
  => /\ ~isRunning
     /\ currentPrice = InitialPrice
     /\ previousPrice = InitialPrice
     /\ time = 0
     /\ buys = << >>
     /\ sells = << >>
     /\ chart.history = << >>
     /\ macro.marketSentiment = DefaultSentiment
     /\ macro.volatilityIndex = DefaultVolatility
     /\ macro.businessCycle = [phase |-> "expansion", currentTime |-> 0]
     /\ macro.activePolicies = << >>
     /\ portfolio.cash = startingCapital
     /\ portfolio.shares = 0
     /\ portfolio.shortPosition = 0
     /\ portfolio.pnl = 0

(* A reset after a run of ChartTime ticks that ended away from 100 and was *)
(* paused.                                                                 *)
ResetDefaultsWitness ==
  /\ last.op = "reset"
  /\ sink.price.timestamp = ChartTime
  /\ sink.price.price # InitialPrice
  /\ timers = 0

(* C21: when a tick finds the candle window elapsed, the candle it pushes  *)
(* onto the history and the candle it opens meet: the new candle's open,   *)
(* high, low and close are the close of the candle just pushed.            *)
CandleSeeded ==
  (last.op = "tick" /\ chart.age = 0 /\ chart.history # << >>)
  => LET closed == chart.history[Len(chart.history)]
     IN /\ chart.candle.open = closed.close
        /\ chart.candle.high = closed.close
        /\ chart.candle.low = closed.close
        /\ chart.candle.close = closed.close

(***************************************************************************)
(* Properties of the tick loop (SpecLoop).                                  *)
(***************************************************************************)
(* C17: the step of a tick that asks the neural network does not wait for   *)
(* the answer: when it hands control back with the decision still awaited,  *)
(* the tick has matched, updated the candle, cleaned the book, called the   *)
(* three sinks and armed the next timer.                                    *)
TickDoesNotWait ==
  [][(~pending.active /\ pending'.active)
       => /\ last'.op = "tick"
          /\ calls' = Called(1, 1, 1)
          /\ timers' = timers + 1]_vars

(* C18: when the simulation was paused or reset while a decision was        *)
(* awaited, the resolution of the decision adds no order, runs no matching  *)
(* pass, leaves the price, the candle and the tick state alone, calls no    *)
(* sink and arms no timer.                                                  *)
StaleDecisionDropped ==
  [][(pending.active /\ ~pending'.active /\ ~isRunning)
       => /\ UNCHANGED <<buys, sells, currentPrice, previousPrice, volume,
                         chart, portfolio, sink, time, timers>>
          /\ calls' = NoCalls
          /\ last'.op # "tick"]_vars

(* C19: at most one tick chain is running or scheduled, whatever the        *)
(* sequence of start, pause and reset.                                      *)
OneTickChain == timers <= 1

(***************************************************************************)
(* Properties of the sinks and of the purge by age (SpecAge).               *)
(***************************************************************************)
(* C14: a tick calls each of the three sinks exactly once, after the        *)
(* matching pass and after cleanOrderBook: the market data, the order list  *)
(* and the portfolio it delivers are those of the end of the tick.          *)
SinksAtEndOfTick ==
  last.op = "tick"
  => /\ calls = Called(1, 1, 1)
     /\ sink.price = [price |-> currentPrice, volume |-> volume,
                      timestamp |-> time]
     /\ sink.orders = buys \o sells
     /\ sink.portfolio = portfolio

(* A tick whose cleanOrderBook purged an order the matching pass had left:  *)
(* the list delivered is the cleaned one.                                   *)
SinksAtEndOfTickWitness ==
  /\ last.op = "tick"
  /\ sink.orders = buys \o sells
  /\ sink.orders # matchOut.buys \o matchOut.sells

(* C20: at the end of a tick no order is in the book that was inserted      *)
(* MaxAge or more ticks before, whoever inserted it.                        *)
PurgedByAge ==
  last.op = "tick"
  => \A i \in 1..Len(buys \o sells) : time - (buys \o sells)[i].born < MaxAge

(***************************************************************************)
(* MarketMakerSimulation: the market-maker mode and the forced direction.   *)
(* The page holds one MarketMakerSimulation next to the MarketSimulation;   *)
(* neither object calls the other.  The trade volume buffer is not kept:    *)
(* what calculateVolumeImpact returns depends on the buffer and on the      *)
(* wall clock, and the two queries below take it as an argument.            *)
(***************************************************************************)
simulationVars ==
  <<isRunning, timers, time, currentPrice, previousPrice, volume,
    buys, sells, portfolio, startingCapital, nnPosition,
    chart, macro, pending, sink, traders,
    trades, matchIn, matchOut, last, seen, calls>>

Directions == {"up", "down"}

(* What calculateVolumeImpact can return: a direction, and whether its      *)
(* strength is above the 0.5% that getMarketManipulation asks for.  The     *)
(* direction is neutral when the net volume is zero, and then the strength  *)
(* is zero.                                                                 *)
VolumeImpacts ==
  {vi \in [direction : {"up", "down", "neutral"}, significant : BOOLEAN] :
     vi.direction = "neutral" => ~vi.significant}

QuietVolume == [direction |-> "neutral", significant |-> FALSE]

setMarketMakerMode(enabled) ==
  /\ marketMaker' = [marketMaker EXCEPT !.marketMakerMode = enabled]
  /\ UNCHANGED simulationVars

(* setMarketManipulation(direction, duration): ignored while the mode is    *)
(* off, else the direction and duration are stored as given and the candle  *)
(* count restarts.                                                          *)
setMarketManipulation(direction, duration) ==
  /\ marketMaker' =
       IF marketMaker.marketMakerMode
       THEN [marketMaker EXCEPT
               !.manipulationDirection = direction,
               !.manipulationDuration = duration,
               !.manipulationCandles = 0,
               !.asked = [direction |-> direction, duration |-> duration],
               !.steps = 0]
       ELSE marketMaker
  /\ UNCHANGED simulationVars

(* The count that clears the manipulation one candle late. *)
incrementCandleLate(mk) ==
  IF /\ mk.manipulationDirection # "none"
     /\ mk.manipulationCandles < mk.manipulationDuration
  THEN LET candles == mk.manipulationCandles + 1
       IN IF candles > mk.manipulationDuration
          THEN [mk EXCEPT !.manipulationDirection = "none",
                          !.manipulationDuration = 0,
                          !.manipulationCandles = 0]
          ELSE [mk EXCEPT !.manipulationCandles = candles]
  ELSE mk

(* The body of incrementManipulationCandle. *)
incrementCandle(mk) ==
  IF /\ mk.manipulationDirection # "none"
     /\ mk.manipulationCandles < mk.manipulationDuration
  THEN LET candles == mk.manipulationCandles + 1
       IN IF candles >= mk.manipulationDuration
          THEN [mk EXCEPT !.manipulationDirection = "none",
                          !.manipulationDuration = 0,
                          !.manipulationCandles = 0]
          ELSE [mk EXCEPT !.manipulationCandles = candles]
  ELSE mk

incrementManipulationCandle ==
  /\ marketMaker.steps < MaxIncrements
  /\ marketMaker' = [incrementCandle(marketMaker) EXCEPT !.steps = @ + 1]
  /\ UNCHANGED simulationVars

(* getMarketManipulation(): the forced direction while it has candles left, *)
(* else the volume impact when it is significant, else nothing.             *)
getMarketManipulation(mk, volumeImpact) ==
  IF /\ mk.manipulationDirection # "none"
     /\ mk.manipulationCandles < mk.manipulationDuration
  THEN [direction |-> mk.manipulationDirection, isActive |-> TRUE,
        candlesRemaining |->
          mk.manipulationDuration - mk.manipulationCandles]
  ELSE IF volumeImpact.significant
  THEN [direction |-> volumeImpact.direction, isActive |-> TRUE,
        candlesRemaining |-> 0]
  ELSE [direction |-> "none", isActive |-> FALSE, candlesRemaining |-> 0]

getStatus(mk, volumeImpact) ==
  [enabled |-> mk.marketMakerMode,
   active |-> mk.manipulationDirection # "none" \/ volumeImpact.significant,
   direction |-> IF mk.manipulationDirection # "none"
                 THEN mk.manipulationDirection
                 ELSE volumeImpact.direction,
   candlesRemaining |-> mk.manipulationDuration - mk.manipulationCandles]

NextMaker ==
  \/ \E enabled \in BOOLEAN : setMarketMakerMode(enabled)
  \/ \E direction \in Directions, duration \in DurationSet :
       setMarketManipulation(direction, duration)
  \/ incrementManipulationCandle

SpecMaker == Init /\ [][NextMaker]_vars

(* C25: after a call of setMarketManipulation(dir, D) that was made with    *)
(* the mode on and D >= 1, and k calls of incrementManipulationCandle:      *)
(* while k < D getMarketManipulation reports isActive with direction dir    *)
(* and candlesRemaining D - k, whatever the volume impact; from the D-th    *)
(* call on the direction is null and the duration and the candle count are  *)
(* 0, later calls change nothing, and the report no longer has candles      *)
(* remaining.                                                               *)
ManipulationCountsDown ==
  marketMaker.asked.duration >= 1
  => \A volumeImpact \in VolumeImpacts :
       LET report == getMarketManipulation(marketMaker, volumeImpact)
       IN IF marketMaker.steps < marketMaker.asked.duration
          THEN /\ report.isActive
               /\ report.direction = marketMaker.asked.direction
               /\ report.candlesRemaining =
                    marketMaker.asked.duration - marketMaker.steps
          ELSE /\ marketMaker.manipulationDirection = "none"
               /\ marketMaker.manipulationDuration = 0
               /\ marketMaker.manipulationCandles = 0
               /\ report.candlesRemaining = 0
               /\ report.isActive = volumeImpact.significant

(* A manipulation of three candles has been counted down, cleared, and      *)
(* incremented once more.                                                   *)
ManipulationCountsDownWitness ==
  /\ marketMaker.asked.duration = MaxDuration
  /\ marketMaker.steps = MaxDuration + 1
  /\ marketMaker.manipulationDirection = "none"

(* C26: a non-null manipulationDirection implies that the market-maker mode *)
(* is on.                                                                   *)
ModeGuardsManipulation ==
  marketMaker.manipulationDirection # "none" => marketMaker.marketMakerMode

(* C30: the candle count lies between 0 and the duration, the direction is  *)
(* non-null exactly when the count is below the duration, the               *)
(* candlesRemaining of getStatus is never negative, and getStatus reports a *)
(* forced direction only when getMarketManipulation reports it active.      *)
CandlesWithinDuration ==
  /\ 0 <= marketMaker.manipulationCandles
  /\ marketMaker.manipulationCandles <= marketMaker.manipulationDuration
  /\ marketMaker.manipulationDirection # "none"
       <=> marketMaker.manipulationCandles < marketMaker.manipulationDuration
  /\ \A volumeImpact \in VolumeImpacts :
       getStatus(marketMaker, volumeImpact).candlesRemaining >= 0
  /\ getStatus(marketMaker, QuietVolume).direction \in Directions
       => getMarketManipulation(marketMaker, QuietVolume).isActive

(***************************************************************************)
(* Properties of the matching pass and of cleanOrderBook on crowded books   *)
(* (SpecCrowd).                                                             *)
(***************************************************************************)
(* C22: every matching pass ends, after at most TradeCap + 1 fills and at   *)
(* most one fill per order it started from, and it leaves a side of the     *)
(* book empty, or the best buy priced strictly below the best sell, or it   *)
(* has made more than TradeCap fills.                                       *)
MatchHalts ==
  last.op = "tick"
  => /\ Len(trades) <= TradeCap + 1
     /\ Len(trades) <= Len(matchIn.buys) + Len(matchIn.sells)
     /\ \/ matchOut.buys = << >>
        \/ matchOut.sells = << >>
        \/ matchOut.buys[1].price < matchOut.sells[1].price
        \/ Len(trades) > TradeCap

(* A pass stopped by the cap with a crossing pair still at the front. *)
MatchHaltsWitness ==
  /\ last.op = "tick"
  /\ Len(trades) = TradeCap + 1
  /\ matchOut.buys # << >>
  /\ matchOut.sells # << >>
  /\ matchOut.buys[1].price >= matchOut.sells[1].price

(* C27: at the end of every tick each side of the book holds at most        *)
(* BookDepth orders, and the orders kept are the best priced of those that  *)
(* passed the age filter: a side keeps BookDepth of them, or all when they  *)
(* are fewer, each order is kept at most as often as it passed, and no      *)
(* order that was dropped is priced better than one that was kept.          *)
Copies(s, o) == Cardinality({i \in DOMAIN s : s[i] = o})

Survivors(s) == SelectSeq(s, LAMBDA o : time - o.timestamp < MaxAge)

KeptOf(kept, passed, better(_, _)) ==
  /\ Len(kept) = Min(Len(passed), BookDepth)
  /\ \A i \in DOMAIN kept : Copies(kept, kept[i]) <= Copies(passed, kept[i])
  /\ \A i \in DOMAIN passed :
       Copies(kept, passed[i]) < Copies(passed, passed[i])
         => \A j \in DOMAIN kept : ~better(passed[i], kept[j])

DepthCapKeepsBest ==
  last.op = "tick"
  => /\ Len(buys) <= BookDepth
     /\ Len(sells) <= BookDepth
     /\ KeptOf(buys, Survivors(matchOut.buys),
               LAMBDA a, b : a.price > b.price)
     /\ KeptOf(sells, Survivors(matchOut.sells),
               LAMBDA a, b : a.price < b.price)

(* The cut has fallen inside the worse of two price levels of the buys. *)
DepthCapKeepsBestWitness ==
  /\ last.op = "tick"
  /\ Len(matchOut.buys) > BookDepth
  /\ Len(buys) = BookDepth
  /\ buys[1].price > buys[BookDepth].price
  /\ matchOut.buys[BookDepth + 1].price = buys[BookDepth].price

(***************************************************************************)
(* Properties of the order book and of the matching pass (Spec).            *)
(***************************************************************************)
(* C23: when a matching pass fills a quantity between a trader's buy order  *)
(* and a trader's sell order at a trade price, the buying trader's cash     *)
(* falls by quantity * price and its shares rise by the quantity, and the   *)
(* selling trader's cash rises by quantity * price and its shares fall, or  *)
(* its short position rises, by the quantity.                               *)
AgentFill ==
  /\ last'.op = "tick"
  /\ Len(trades') = 1
  /\ trades'[1].buy.trader = "agent"
  /\ trades'[1].sell.trader = "agent"
  /\ trades'[1].quantity > 0

BalancesFollowFills ==
  [][AgentFill
     => LET fill == trades'[1]
            paid == fill.quantity * fill.tradePrice
        IN /\ traders'.buyer.cash = traders.buyer.cash - paid
           /\ traders'.buyer.shares = traders.buyer.shares + fill.quantity
           /\ traders'.seller.cash = traders.seller.cash + paid
           /\ \/ traders'.seller.shares
                   = traders.seller.shares - fill.quantity
              \/ traders'.seller.shortPosition
                   = traders.seller.shortPosition + fill.quantity]_vars

SortedBuys(s) == \A i \in 1..(Len(s) - 1) : s[i].price >= s[i + 1].price

SortedSells(s) == \A i \in 1..(Len(s) - 1) : s[i].price <= s[i + 1].price

(* C28: every order resting in the book has a strictly positive quantity. *)
PositiveQuantities ==
  /\ \A i \in DOMAIN buys : buys[i].quantity > 0
  /\ \A i \in DOMAIN sells : sells[i].quantity > 0

(* C1: in every state the buy list is sorted non-increasing by price and    *)
(* the sell list non-decreasing by price; so is the book a matching pass    *)
(* leaves behind.                                                           *)
BookSorted ==
  /\ SortedBuys(buys) /\ SortedSells(sells)
  /\ SortedBuys(matchOut.buys) /\ SortedSells(matchOut.sells)

(* An order added later rests in front of an older, worse-priced one. *)
BookSortedWitness ==
  \/ /\ Len(buys) >= 2
     /\ buys[1].price > buys[2].price
     /\ buys[1].born > buys[2].born
  \/ /\ Len(sells) >= 2
     /\ sells[1].price < sells[2].price
     /\ sells[1].born > sells[2].born

(* C2: every fill of a matching pass is the smaller of the two pre-fill     *)
(* quantities, both orders lose exactly that much and neither is left with  *)
(* a negative quantity.                                                     *)
FillsConserve ==
  \A i \in 1..Len(trades) :
    LET t == trades[i]
    IN /\ t.quantity = Min(t.buy.quantity, t.sell.quantity)
       /\ t.buyLeft.quantity = t.buy.quantity - t.quantity
       /\ t.sellLeft.quantity = t.sell.quantity - t.quantity
       /\ t.buyLeft.quantity >= 0
       /\ t.sellLeft.quantity >= 0

(* A partial fill: one of the two orders was larger than the other. *)
FillsConserveWitness ==
  \E i \in 1..Len(trades) :
    /\ trades[i].buy.quantity # trades[i].sell.quantity
    /\ trades[i].quantity > 0

(* C3: every fill is priced at the limit price of the order that was        *)
(* inserted into the book on the earlier tick.                              *)
TradeAtRestingPrice ==
  \A i \in 1..Len(trades) :
    LET t == trades[i]
    IN /\ t.buy.born < t.sell.born => t.tradePrice = t.buy.price
       /\ t.sell.born < t.buy.born => t.tradePrice = t.sell.price

(* C4: when the best buy (b @ pb) crosses the best sell (s @ ps) with       *)
(* b > s and no other sell crosses that buy, the pass makes one fill of s,  *)
(* takes the sell off the book and leaves the buy with b - s at pb.         *)
ResidualBuy ==
  LET bs == matchIn.buys
      ss == matchIn.sells
  IN (/\ bs # << >> /\ ss # << >>
      /\ bs[1].price >= ss[1].price
      /\ bs[1].quantity > ss[1].quantity
      /\ Len(ss) >= 2 => ss[2].price > bs[1].price)
     => /\ Len(trades) = 1
        /\ trades[1].quantity = ss[1].quantity
        /\ matchOut.sells = Tail(ss)
        /\ matchOut.buys =
             <<[bs[1] EXCEPT !.quantity = bs[1].quantity - ss[1].quantity]>>
               \o Tail(bs)

(* Buy 2 against sell 1 at a lower price: 1 is left at the buy's price. *)
ResidualBuyWitness ==
  /\ Len(trades) = 1
  /\ trades[1].buy.quantity = 2 /\ trades[1].sell.quantity = 1
  /\ trades[1].buy.price > trades[1].sell.price
  /\ matchOut.buys # << >>
  /\ matchOut.buys[1].quantity = 1
  /\ matchOut.buys[1].price = trades[1].buy.price


(***************************************************************************)
(* Properties of the portfolio ledger (SpecLedger).                         *)
(***************************************************************************)
TradeOp(ops) == last.op \in ops

(* C5: after every operation the total value is cash + shares * price -     *)
(* short * price at the current price, and the P&L is the total value less  *)
(* the starting capital.                                                    *)
ValueIdentity ==
  /\ portfolio.totalValue =
       portfolio.cash + portfolio.shares * currentPrice
         - portfolio.shortPosition * currentPrice
  /\ portfolio.pnl = portfolio.totalValue - startingCapital

(* A tick has just moved the price under a long and a short position. *)
ValueIdentityWitness ==
  /\ TradeOp({"tick"})
  /\ portfolio.shares > 0
  /\ portfolio.shortPosition > 0
  /\ currentPrice # previousPrice

(* C6: a plain buy of Q > 0 at P > 0 with cash >= Q * P takes exactly Q * P *)
(* of cash, adds exactly Q shares and leaves the short position alone.      *)
PlainBuy ==
  (/\ TradeOp({"executeTrade", "executeBuyMax"})
   /\ last.type = "buy" /\ ~last.isShort
   /\ last.quantity > 0 /\ last.price > 0
   /\ last.prePortfolio.cash >= last.quantity * last.price)
  => /\ portfolio.cash = last.prePortfolio.cash - last.quantity * last.price
     /\ portfolio.shares = last.prePortfolio.shares + last.quantity
     /\ portfolio.shortPosition = last.prePortfolio.shortPosition

(* A plain buy that spends all the cash there is. *)
PlainBuyWitness ==
  /\ TradeOp({"executeTrade"})
  /\ last.type = "buy" /\ ~last.isShort
  /\ last.quantity > 0
  /\ last.prePortfolio.cash = last.quantity * last.price
  /\ portfolio.cash = 0

(* C7: a buy through executeTrade that costs more than the cash at hand     *)
(* never leaves the cash negative.                                          *)
NoOverdraft ==
  (/\ TradeOp({"executeTrade"})
   /\ last.type = "buy"
   /\ last.quantity > 0 /\ last.price > 0
   /\ last.prePortfolio.cash >= 0
   /\ last.prePortfolio.cash < last.quantity * last.price)
  => portfolio.cash >= 0

(* C8: a covering buy of Q lowers the short position by min(Q, short); a    *)
(* full cover leaves no short position and the same long shares.            *)
CoverReduces ==
  (/\ TradeOp({"executeTrade", "executeCoverMax"})
   /\ last.type = "buy" /\ last.isShort)
  => /\ portfolio.shortPosition =
          last.prePortfolio.shortPosition
            - Min(last.quantity, last.prePortfolio.shortPosition)
     /\ last.quantity = last.prePortfolio.shortPosition
          => /\ portfolio.shortPosition = 0
             /\ portfolio.shares = last.prePortfolio.shares

(* executeCoverMax has covered a whole short position. *)
CoverReducesWitness ==
  /\ TradeOp({"executeCoverMax"})
  /\ last.type = "buy" /\ last.isShort
  /\ last.prePortfolio.shortPosition > 0
  /\ last.quantity = last.prePortfolio.shortPosition
  /\ portfolio.shortPosition = 0

(* C9: an invalid request (plain buy dearer than the cash, plain sell of    *)
(* more shares than held, quantity not positive) leaves the portfolio, the  *)
(* order book and the price as they were.                                   *)
InvalidRequest ==
  /\ TradeOp({"executeTrade"})
  /\ \/ /\ last.type = "buy" /\ ~last.isShort
        /\ last.quantity * last.price > last.prePortfolio.cash
     \/ /\ last.type = "sell" /\ ~last.isShort
        /\ last.quantity > last.prePortfolio.shares
     \/ last.quantity <= 0

InvalidSkipped ==
  InvalidRequest
  => /\ portfolio = last.prePortfolio
     /\ buys = last.preBuys
     /\ sells = last.preSells
     /\ currentPrice = last.prePrice

(* C10: cash, long shares and short position are never negative. *)
NeverNegative ==
  /\ portfolio.cash >= 0
  /\ portfolio.shares >= 0
  /\ portfolio.shortPosition >= 0

(* C15: when executeTrade has returned, the portfolio, the order list and   *)
(* the price last delivered to the sinks are the current portfolio, the     *)
(* current book with the echo orders, and the current price.                *)
TradeDelivered ==
  TradeOp({"executeTrade"})
  => /\ sink.portfolio = portfolio
     /\ sink.orders = buys \o sells
     /\ sink.price.price = currentPrice

(* C24: the cash, the shares and the short position of the portfolio are  *)
(* changed only by executeTrade, the four max operations, reset and        *)
(* setStartingCapital; a tick, the matching of the user's own echo orders  *)
(* included, keeps the three and recomputes total value and P&L at the new *)
(* price.                                                                  *)
Holdings(pf) == <<pf.cash, pf.shares, pf.shortPosition>>

HoldingsFrame ==
  [][/\ last'.op = "tick"
          => /\ Holdings(portfolio') = Holdings(portfolio)
             /\ portfolio'.totalValue =
                  portfolio.cash + portfolio.shares * currentPrice'
                    - portfolio.shortPosition * currentPrice'
             /\ portfolio'.pnl = portfolio'.totalValue - startingCapital
     /\ Holdings(portfolio') # Holdings(portfolio)
          => last'.op \in {"executeTrade", "executeBuyMax", "executeSellMax",
                           "executeShortMax", "executeCoverMax", "reset",
                           "setStartingCapital"}]_vars

(* A tick has matched the user's echo orders while shares are held. *)
HoldingsFrameWitness ==
  /\ last.op = "tick"
  /\ \E i \in 1..Len(trades) :
       /\ trades[i].buy.trader = "mega_player"
       /\ trades[i].sell.trader = "mega_player"
       /\ trades[i].quantity > 0
  /\ portfolio.shares > 0

(* C29: after setStartingCapital(A), whatever positions are held, the       *)
(* portfolio delivered to the portfolio sink has cash A, total value A and  *)
(* a P&L and P&L percentage of 0.                                          *)
CapitalResetsValue ==
  last.op = "setStartingCapital"
  => /\ sink.portfolio.cash = startingCapital
     /\ sink.portfolio.totalValue = startingCapital
     /\ sink.portfolio.pnl = 0
     /\ sink.portfolio.pnlPercent = 0

(* C16: executeBuyMax buys floor(cash / price) shares at the current price  *)
(* and leaves 0 <= cash < price; executeSellMax sells every long share;     *)
(* executeShortMax shorts floor(cash / price) shares; executeCoverMax       *)
(* covers the whole short position; and each of them leaves portfolio,      *)
(* book and price as they were when its quantity is not positive.           *)
Untouched ==
  /\ last.type = "none"
  /\ portfolio = last.prePortfolio
  /\ buys = last.preBuys
  /\ sells = last.preSells
  /\ currentPrice = last.prePrice

MaxTrades ==
  LET pre == last.prePortfolio
      afford == pre.cash \div last.prePrice
  IN /\ TradeOp({"executeBuyMax"})
          => IF afford > 0
             THEN /\ last.type = "buy" /\ ~last.isShort
                  /\ last.quantity = afford
                  /\ last.price = last.prePrice
                  /\ portfolio.shares = pre.shares + afford
                  /\ portfolio.cash = pre.cash - afford * last.prePrice
                  /\ portfolio.cash >= 0
                  /\ portfolio.cash < last.prePrice
             ELSE Untouched
     /\ TradeOp({"executeSellMax"})
          => IF pre.shares > 0
             THEN /\ last.type = "sell" /\ ~last.isShort
                  /\ last.quantity = pre.shares
                  /\ last.price = last.prePrice
                  /\ portfolio.shares = 0
                  /\ portfolio.cash = pre.cash + pre.shares * last.prePrice
             ELSE Untouched
     /\ TradeOp({"executeShortMax"})
          => IF afford > 0
             THEN /\ last.type = "sell" /\ last.isShort
                  /\ last.quantity = afford
                  /\ last.price = last.prePrice
                  /\ portfolio.shortPosition = pre.shortPosition + afford
                  /\ portfolio.shares = pre.shares
             ELSE Untouched
     /\ TradeOp({"executeCoverMax"})
          => IF pre.shortPosition > 0
             THEN /\ last.type = "buy" /\ last.isShort
                  /\ last.quantity = pre.shortPosition
                  /\ last.price = last.prePrice
                  /\ portfolio.shortPosition = 0
                  /\ portfolio.shares = pre.shares
             ELSE Untouched

(* executeBuyMax has bought two shares and left cash that buys no third. *)
MaxTradesWitness ==
  /\ TradeOp({"executeBuyMax"})
  /\ last.quantity = 2
  /\ portfolio.cash > 0
  /\ portfolio.cash < last.prePrice


====
